---- MODULE Spec2Model ----
(***************************************************************************)
(* Model of plugins/whitelist/kv.go: the Whitelist cache (Enabled,         *)
(* Whitelisted) guarded by one sync.RWMutex, its write-through mutations,  *)
(* Reload, the readers, and the goroutine that applies the watch stream.   *)
(*                                                                         *)
(* Every statement of the source that takes or releases the lock, touches  *)
(* a field or calls the store is one step of the task that executes it.    *)
(* sync.RWMutex has no owner: Lock waits until no writer and no reader is  *)
(* inside, Unlock clears the writer flag whoever set it, and Unlock of a   *)
(* mutex that is not write-locked is the runtime's fatal error, which ends *)
(* the process (crashed).  Goroutines interleave statement by statement,   *)
(* also when a stray Unlock has let two of them into the critical section. *)
(*                                                                         *)
(* The bucket and its typed accessors (hosting.GetKeyFromKV, SetKeyToKV,   *)
(* kv.Bucket.WatchAll) are not part of kv.go: a read yields the stored     *)
(* value, not-found or another error; a write stores the encoded value and *)
(* the watch stream delivers every write, this process's own included, in  *)
(* the order of the writes.  The bucket is empty when the cache is built.  *)
(***************************************************************************)
EXTENDS Integers, Sequences, FiniteSets, TLC

\* ------------------------------------------------------------------ bounds
MaxCallers == 2      \* caller goroutines
MaxCalls == 2        \* public operations invoked in one run
MaxRemote == 1       \* events caused by other processes in one run

Callers == 1..MaxCallers
Ids == {"a", "b"}
EmptyStr == ""
Keys == {"enabled", "whitelisted"}

MutOps == {"Enable", "Disable", "Add", "Remove"}
ReadOps == {"IsEnabled", "Contains", "AllWhitelisted"}
Ops == MutOps \cup ReadOps \cup {"Reload"}
NoOp == "none"
NoArg == "-"

\* ------------------------------------------------------- raw JSON payloads
\* A payload is the byte string stored under a key, by its JSON shape:
\* a boolean literal, an array of tokens, or bytes that are not JSON.
\* An array token is a JSON string (q = TRUE) or a number (q = FALSE).
StrTok(s) == [q |-> TRUE, s |-> s]
NumTok == [q |-> FALSE, s |-> "1"]
BoolPayload(b) == [t |-> "bool", b |-> b, a |-> <<>>]
ArrPayload(toks) == [t |-> "arr", b |-> FALSE, a |-> toks]
BadPayload == [t |-> "bad", b |-> FALSE, a |-> <<>>]
Absent == [t |-> "absent", b |-> FALSE, a |-> <<>>]

\* json.Marshal of a bool and of a []string.
MarshalBool(b) == BoolPayload(b)
MarshalSlice(s) == ArrPayload([i \in 1..Len(s) |-> StrTok(s[i])])

\* json.Unmarshal(p, &cur) for cur a bool: the value left in cur and whether
\* an error is returned.  Anything but a boolean literal leaves cur alone.
UnmarshalBool(p, cur) ==
    IF p.t = "bool" THEN [val |-> p.b, err |-> FALSE]
    ELSE [val |-> cur, err |-> TRUE]

\* The part of a slice's backing array behind its length, as far as it holds
\* anything but zero values.
RECURSIVE Trim(_)
Trim(s) ==
    IF s = <<>> THEN <<>>
    ELSE IF s[Len(s)] = EmptyStr THEN Trim(SubSeq(s, 1, Len(s) - 1))
    ELSE s

\* json.Unmarshal(p, &cur) for cur a []string whose backing array goes on
\* with sp: the slice (val) and the rest of its array (sp) afterwards, and
\* whether an error is returned.  Bytes that are not JSON and a JSON value
\* that is not an array leave the slice alone.  An array is decoded element by
\* element into the slice's own array: a string token is stored, a token of
\* another type records the error and leaves the element holding what the
\* array held there, and decoding goes on; the slice ends with the array's
\* length, and an empty array gives a fresh slice.
UnmarshalSlice(p, cur, sp) ==
    IF p.t = "arr"
    THEN LET old == cur \o sp
             n == Len(p.a)
         IN [val |-> [i \in 1..n |->
                        IF p.a[i].q THEN p.a[i].s
                        ELSE IF i <= Len(old) THEN old[i] ELSE EmptyStr],
             sp |-> IF n = 0 THEN <<>> ELSE Trim(SubSeq(old, n + 1, Len(old))),
             err |-> \E i \in 1..n : ~p.a[i].q]
    ELSE [val |-> cur, sp |-> sp, err |-> TRUE]

\* Whether a payload decodes without error into the field stored under key k.
WellFormed(k, p) ==
    IF k = "enabled" THEN p.t = "bool"
    ELSE p.t = "arr" /\ \A i \in 1..Len(p.a) : p.a[i].q

\* What other processes write under key k: well-formed values, bytes that are
\* not JSON, and for "whitelisted" an array with an element of the wrong type.
RemotePayloads(k) ==
    IF k = "enabled"
    THEN { BoolPayload(TRUE), BoolPayload(FALSE), BadPayload }
    ELSE { ArrPayload(<<StrTok("a")>>), ArrPayload(<<StrTok("b"), NumTok>>), BadPayload }

\* ------------------------------------------------------------ watch events
Event(k, p) == [key |-> k, val |-> p]
NilEvent == Event("nil", BadPayload)
NoEvent == Event("none", BadPayload)

\* ---------------------------------------------------------------- results
\* What a call returns: nil or an error for Reload and the mutations, a bool
\* for IsEnabled and Contains, a slice for AllWhitelisted.
NoRet == [st |-> "none", b |-> FALSE, s |-> <<>>]
RetNil == [st |-> "nil", b |-> FALSE, s |-> <<>>]
RetErr == [st |-> "err", b |-> FALSE, s |-> <<>>]
RetBool(b) == [st |-> "val", b |-> b, s |-> <<>>]
RetSlice(s) == [st |-> "val", b |-> FALSE, s |-> s]

VARIABLES
    enabled,     \* w.Enabled
    members,     \* w.Whitelisted
    spare,       \* what the array of w.Whitelisted holds behind its length
    wlocked,     \* w.m is write-locked
    readers,     \* number of read locks held on w.m
    crashed,     \* the runtime has thrown a fatal error
    store,       \* the bucket: key -> payload or Absent
    watch,       \* watcher.Changes(): events not yet received
    apc,         \* position of the apply-loop goroutine
    aev,         \* the event the apply loop is handling
    pc,          \* position of each caller
    op,          \* operation each caller is in (or was last in)
    arg,         \* its argument
    ret,         \* its result
    calls,       \* operations invoked so far
    remotes,     \* remote events so far
    \* history, read only by the properties
    malformed,   \* the apply loop has met a payload it could not decode
    addInv,      \* ids Add has been invoked with
    addRet,      \* ids an Add has returned for
    pre,         \* per caller in Reload: the fields when it took the lock
    rd,          \* per caller in Reload: the outcome of each read it made
    quiet,       \* the callers (at most one) whose Reload nothing has overlapped so far
    last         \* what the last undisturbed Reload left, while nothing has happened since

lockVars == <<wlocked, readers, crashed>>
dataVars == <<enabled, members, spare>>
envVars == <<store, watch>>
loopVars == <<apc, aev>>
callVars == <<pc, op, arg, ret, calls>>
histVars == <<malformed, addInv, addRet, pre, rd>>
vars == <<enabled, members, spare, wlocked, readers, crashed, store, watch,
          apc, aev, pc, op, arg, ret, calls, remotes,
          malformed, addInv, addRet, pre, rd, quiet, last>>

NoSnap == [e |-> FALSE, m |-> <<>>]
NoReads == [e |-> "unread", w |-> "unread"]
NoLast == [ret |-> NoRet, e |-> NoRet, m |-> NoRet, rd |-> NoReads]

\* A step that is not part of a Reload overlaps any Reload in progress and
\* comes between the last Reload and the next.
Overlaps == quiet' = {} /\ last' = NoLast
Other == Overlaps /\ UNCHANGED histVars
\* A step of t's own Reload leaves it undisturbed if it was.  A Reload starts
\* undisturbed when it is invoked with every other task at rest.
StillQuiet(t) ==
    /\ quiet' = quiet \cap {t}
    /\ last' = IF t \in quiet THEN last ELSE NoLast

\* --------------------------------------------------------- sync.RWMutex
CanLock == ~wlocked /\ readers = 0
CanRLock == ~wlocked

\* w.m.Lock()
Lock ==
    /\ CanLock
    /\ wlocked' = TRUE
    /\ UNCHANGED <<readers, crashed>>

\* w.m.Unlock(): fatal "sync: Unlock of unlocked RWMutex" when no writer holds it
Unlock ==
    /\ wlocked' = FALSE
    /\ crashed' = (crashed \/ ~wlocked)
    /\ UNCHANGED readers

\* w.m.RLock()
RLock ==
    /\ CanRLock
    /\ readers' = readers + 1
    /\ UNCHANGED <<wlocked, crashed>>
    /\ Other

\* w.m.RUnlock(): fatal "sync: RUnlock of unlocked RWMutex" with no reader
RUnlock ==
    /\ readers' = IF readers > 0 THEN readers - 1 ELSE 0
    /\ crashed' = (crashed \/ readers = 0)
    /\ UNCHANGED wlocked

\* ------------------------------------------------------------------ Init
\* NewKVWhitelist: Enabled false, Whitelisted empty, a fresh bucket, the
\* watcher opened and the apply loop started.
Init ==
    /\ enabled = FALSE
    /\ members = <<>>
    /\ spare = <<>>
    /\ wlocked = FALSE
    /\ readers = 0
    /\ crashed = FALSE
    /\ store = [k \in Keys |-> Absent]
    /\ watch = <<>>
    /\ apc = "recv"
    /\ aev = NoEvent
    /\ pc = [t \in Callers |-> "idle"]
    /\ op = [t \in Callers |-> NoOp]
    /\ arg = [t \in Callers |-> NoArg]
    /\ ret = [t \in Callers |-> NoRet]
    /\ calls = 0
    /\ remotes = 0
    /\ malformed = FALSE
    /\ addInv = {}
    /\ addRet = {}
    /\ last = NoLast
    /\ pre = [t \in Callers |-> NoSnap]
    /\ rd = [t \in Callers |-> NoReads]
    /\ quiet = {}

\* ------------------------------------------------------------ apply loop
\* (mutant) the switch has no case for "whitelisted"
ApplyRecvEnabledOnly ==
    /\ ~crashed /\ apc = "recv" /\ watch # <<>>
    /\ watch' = Tail(watch)
    /\ IF Head(watch).key = "enabled"
       THEN apc' = "lock" /\ aev' = Head(watch)
       ELSE UNCHANGED <<apc, aev>>
    /\ UNCHANGED <<dataVars, lockVars, store, callVars, remotes>>
    /\ Other

\* (mutant) every event is handled, whatever its key
ApplyRecvAnyKey ==
    /\ ~crashed /\ apc = "recv" /\ watch # <<>>
    /\ watch' = Tail(watch)
    /\ apc' = "lock" /\ aev' = Head(watch)
    /\ UNCHANGED <<dataVars, lockVars, store, callVars, remotes>>
    /\ Other

\* for key := range watcher.Changes(): a nil event and an event for another
\* key are skipped; an event for one of the two keys is handled.
ApplyRecv ==
    /\ ~crashed /\ apc = "recv" /\ watch # <<>>
    /\ watch' = Tail(watch)
    /\ IF Head(watch).key \in Keys
       THEN apc' = "lock" /\ aev' = Head(watch)
       ELSE UNCHANGED <<apc, aev>>
    /\ UNCHANGED <<dataVars, lockVars, store, callVars, remotes>>
    /\ Other

\* w.m.Lock() of the event handler
ApplyLock ==
    /\ ~crashed /\ apc = "lock"
    /\ Lock
    /\ apc' = "decode"
    /\ UNCHANGED <<dataVars, envVars, aev, callVars, remotes>>
    /\ Other

\* (mutant) the payload is decoded into a temporary that is never stored
ApplyDecodeUncommitted ==
    /\ ~crashed /\ apc = "decode"
    /\ apc' = IF WellFormed(aev.key, aev.val) THEN "unlock" ELSE "errUnlock"
    /\ malformed' = (malformed \/ apc' = "errUnlock")
    /\ Overlaps
    /\ UNCHANGED <<dataVars, lockVars, envVars, aev, callVars, remotes, addInv, addRet, pre, rd>>

\* json.Unmarshal(key.Value, &w.Enabled) / (key.Value, &w.Whitelisted)
ApplyDecode ==
    /\ ~crashed /\ apc = "decode"
    /\ IF aev.key = "enabled"
       THEN /\ enabled' = UnmarshalBool(aev.val, enabled).val
            /\ apc' = IF UnmarshalBool(aev.val, enabled).err THEN "errUnlock" ELSE "unlock"
            /\ UNCHANGED <<members, spare>>
       ELSE /\ members' = UnmarshalSlice(aev.val, members, spare).val
            /\ spare' = UnmarshalSlice(aev.val, members, spare).sp
            /\ apc' = IF UnmarshalSlice(aev.val, members, spare).err THEN "errUnlock" ELSE "unlock"
            /\ UNCHANGED enabled
    /\ malformed' = (malformed \/ apc' = "errUnlock")
    /\ Overlaps
    /\ UNCHANGED <<lockVars, envVars, aev, callVars, remotes, addInv, addRet, pre, rd>>

\* the w.m.Unlock() inside the error branch; the handler then falls through
ApplyErrUnlock ==
    /\ ~crashed /\ apc = "errUnlock"
    /\ Unlock
    /\ apc' = "unlock"
    /\ UNCHANGED <<dataVars, envVars, aev, callVars, remotes>>
    /\ Other

\* the w.m.Unlock() that ends the case
ApplyUnlock ==
    /\ ~crashed /\ apc = "unlock"
    /\ Unlock
    /\ apc' = "recv"
    /\ aev' = NoEvent
    /\ UNCHANGED <<dataVars, envVars, callVars, remotes>>
    /\ Other

\* ------------------------------------------------------------ invocation
FirstPc(o) ==
    IF o \in MutOps THEN "lock1"
    ELSE IF o = "Reload" THEN "rlock"
    ELSE "rdlock"

ArgsOf(o) == IF o \in {"Add", "Remove", "Contains"} THEN Ids ELSE {NoArg}

\* A caller goroutine invokes a public method.
Call(t, o, a) ==
    /\ ~crashed /\ pc[t] = "idle" /\ calls < MaxCalls
    /\ pc' = [pc EXCEPT ![t] = FirstPc(o)]
    /\ op' = [op EXCEPT ![t] = o]
    /\ arg' = [arg EXCEPT ![t] = a]
    /\ ret' = [ret EXCEPT ![t] = NoRet]
    /\ calls' = calls + 1
    /\ addInv' = IF o = "Add" THEN addInv \cup {a} ELSE addInv
    /\ quiet' = IF o = "Reload" /\ apc = "recv" /\ (\A u \in Callers : pc[u] = "idle")
                THEN {t} ELSE {}
    /\ last' = IF quiet' = {} THEN NoLast ELSE last
    /\ UNCHANGED <<dataVars, lockVars, envVars, loopVars, remotes, malformed, addRet, pre, rd>>

\* The call returns to its caller, which takes the result with it.
Return(t) ==
    /\ pc' = [pc EXCEPT ![t] = "idle"]
    /\ op' = [op EXCEPT ![t] = NoOp]
    /\ arg' = [arg EXCEPT ![t] = NoArg]
    /\ ret' = [ret EXCEPT ![t] = NoRet]

\* ---------------------------------------- Enable / Disable / Add / Remove
\* (mutant) only the first element equal to uuid is deleted
RECURSIVE DeleteFirst(_, _)
DeleteFirst(s, uuid) ==
    IF s = <<>> THEN <<>>
    ELSE IF Head(s) = uuid THEN Tail(s)
    ELSE <<Head(s)>> \o DeleteFirst(Tail(s), uuid)

\* slices.DeleteFunc(s, func(x) bool { return x == uuid })
RECURSIVE DeleteFunc(_, _)
DeleteFunc(s, uuid) ==
    IF s = <<>> THEN <<>>
    ELSE IF Head(s) = uuid THEN DeleteFunc(Tail(s), uuid)
    ELSE <<Head(s)>> \o DeleteFunc(Tail(s), uuid)

\* slices.Contains(s, uuid)
SliceContains(s, uuid) == \E i \in 1..Len(s) : s[i] = uuid

\* the assignment each mutation makes between its Lock and its Unlock
\* (append writes into the next element of the array or moves to a larger
\* one; slices.DeleteFunc zeroes the elements it frees)
EnableUpdate == enabled' = TRUE /\ UNCHANGED <<members, spare>>
DisableUpdate == enabled' = FALSE /\ UNCHANGED <<members, spare>>
AddUpdate(uuid) ==
    /\ members' = Append(members, uuid)
    /\ spare' = IF spare = <<>> THEN <<>> ELSE Tail(spare)
    /\ UNCHANGED enabled
RemoveUpdate(uuid) ==
    /\ members' = DeleteFunc(members, uuid)
    /\ spare' = IF spare = <<>> THEN <<>>
                ELSE [i \in 1..(Len(members) - Len(DeleteFunc(members, uuid))) |-> EmptyStr]
                     \o spare
    /\ UNCHANGED enabled

\* w.m.Lock() at the head of a mutation
MutLock(t) ==
    /\ ~crashed /\ pc[t] = "lock1"
    /\ Lock
    /\ pc' = [pc EXCEPT ![t] = "update"]
    /\ UNCHANGED <<dataVars, envVars, loopVars, op, arg, ret, calls, remotes>>
    /\ Other

MutUpdate(t) ==
    /\ ~crashed /\ pc[t] = "update"
    /\ CASE op[t] = "Enable" -> EnableUpdate
         [] op[t] = "Disable" -> DisableUpdate
         [] op[t] = "Add" -> AddUpdate(arg[t])
         [] OTHER -> RemoveUpdate(arg[t])
    /\ pc' = [pc EXCEPT ![t] = "unlock1"]
    /\ UNCHANGED <<lockVars, envVars, loopVars, op, arg, ret, calls, remotes>>
    /\ Other

\* w.m.Unlock() before the save
MutUnlock(t) ==
    /\ ~crashed /\ pc[t] = "unlock1"
    /\ Unlock
    /\ pc' = [pc EXCEPT ![t] = "lock2"]
    /\ UNCHANGED <<dataVars, envVars, loopVars, op, arg, ret, calls, remotes>>
    /\ Other

\* ------------------------------------------ saveEnabled / saveWhitelisted
SaveKey(o) == IF o \in {"Enable", "Disable"} THEN "enabled" ELSE "whitelisted"

\* the value saveEnabled / saveWhitelisted hands to SetKeyToKV
SaveValue(o) ==
    IF SaveKey(o) = "enabled" THEN MarshalBool(enabled) ELSE MarshalSlice(members)

\* w.m.Lock() at the head of saveEnabled / saveWhitelisted
SaveLock(t) ==
    /\ ~crashed /\ pc[t] = "lock2"
    /\ Lock
    /\ pc' = [pc EXCEPT ![t] = "set"]
    /\ UNCHANGED <<dataVars, envVars, loopVars, op, arg, ret, calls, remotes>>
    /\ Other

\* hosting.SetKeyToKV succeeds: the bucket holds the encoded value and the
\* watch stream delivers the change, to this process too.
SetOk(t) ==
    /\ ~crashed /\ pc[t] = "set"
    /\ store' = [store EXCEPT ![SaveKey(op[t])] = SaveValue(op[t])]
    /\ watch' = Append(watch, Event(SaveKey(op[t]), SaveValue(op[t])))
    /\ ret' = [ret EXCEPT ![t] = RetNil]
    /\ pc' = [pc EXCEPT ![t] = "unlock2"]
    /\ UNCHANGED <<dataVars, lockVars, loopVars, op, arg, calls, remotes>>
    /\ Other

\* (mutant) a failed persist takes the update back before it returns the error
SetFailUndo(t) ==
    /\ ~crashed /\ pc[t] = "set"
    /\ CASE op[t] = "Enable" -> DisableUpdate
         [] op[t] = "Disable" -> EnableUpdate
         [] op[t] = "Add" -> RemoveUpdate(arg[t])
         [] OTHER -> AddUpdate(arg[t])
    /\ ret' = [ret EXCEPT ![t] = RetErr]
    /\ pc' = [pc EXCEPT ![t] = "unlock2"]
    /\ UNCHANGED <<lockVars, envVars, loopVars, op, arg, calls, remotes>>
    /\ Other

\* hosting.SetKeyToKV fails: nothing is written and the error is returned.
SetFail(t) ==
    /\ ~crashed /\ pc[t] = "set"
    /\ ret' = [ret EXCEPT ![t] = RetErr]
    /\ pc' = [pc EXCEPT ![t] = "unlock2"]
    /\ UNCHANGED <<dataVars, lockVars, envVars, loopVars, op, arg, calls, remotes>>
    /\ Other

\* the deferred w.m.Unlock() of the save; the mutation returns
SaveUnlock(t) ==
    /\ ~crashed /\ pc[t] = "unlock2"
    /\ Unlock
    /\ Return(t)
    /\ addRet' = IF op[t] = "Add" THEN addRet \cup {arg[t]} ELSE addRet
    /\ Overlaps
    /\ UNCHANGED <<dataVars, envVars, loopVars, calls, remotes, malformed, addInv, pre, rd>>

\* ----------------------------------------------------------------- Reload
\* hosting.GetKeyFromKV(ctx, w.kv, key, &field): the outcomes a read can have
\* now.  err is "nil", "notfound" (the error wraps kv.ErrKeyNotFound) or
\* "store" (the read failed) or "decode" (the value read did not decode); val is what the
\* field holds afterwards.
ReadFailed == {"store", "decode"}

GetBool(cur) ==
    {[val |-> cur, err |-> "store"]} \cup
    IF store["enabled"] = Absent
    THEN {[val |-> cur, err |-> "notfound"]}
    ELSE {[val |-> UnmarshalBool(store["enabled"], cur).val,
           err |-> IF UnmarshalBool(store["enabled"], cur).err THEN "decode" ELSE "nil"]}

GetSlice(cur, sp) ==
    {[val |-> cur, sp |-> sp, err |-> "store"]} \cup
    IF store["whitelisted"] = Absent
    THEN {[val |-> cur, sp |-> sp, err |-> "notfound"]}
    ELSE {[val |-> UnmarshalSlice(store["whitelisted"], cur, sp).val,
           sp |-> UnmarshalSlice(store["whitelisted"], cur, sp).sp,
           err |-> IF UnmarshalSlice(store["whitelisted"], cur, sp).err
                   THEN "decode" ELSE "nil"]}

\* "return err" after the "enabled" read: whatever the read returned
ErrRet(e) == IF e = "nil" THEN RetNil ELSE RetErr

\* (mutant) the not-found branch leaves Enabled as it was
EnabledNotFoundKept(cur) == cur

\* (mutant) the not-found branch flips Enabled
EnabledNotFoundFlipped(cur) == ~cur

\* w.Enabled = false when "enabled" is not found
EnabledNotFound(cur) == FALSE

\* w.Whitelisted = make([]string, 0) when "whitelisted" is not found
WhitelistedNotFound(cur) == <<>>

\* (mutant) the error of the "whitelisted" read is dropped
WhitelistedRetSwallowed(e) == RetNil

\* after the "whitelisted" read: "else if err != nil { return err }", else nil
WhitelistedRet(e) == IF e \in ReadFailed THEN RetErr ELSE RetNil


\* the value the reader computes under the read lock
ReadValue(o, a) ==
    CASE o = "IsEnabled" -> RetBool(enabled)
      [] o = "Contains" -> RetBool(SliceContains(members, a))
      [] OTHER -> RetSlice(<<>> \o members)

\* w.m.Lock() at the head of Reload
ReloadLock(t) ==
    /\ ~crashed /\ pc[t] = "rlock"
    /\ Lock
    /\ pc' = [pc EXCEPT ![t] = "rEnabled"]
    /\ pre' = [pre EXCEPT ![t] = [e |-> enabled, m |-> members]]
    /\ StillQuiet(t)
    /\ UNCHANGED <<dataVars, envVars, loopVars, op, arg, ret, calls, remotes>>
    /\ UNCHANGED <<malformed, addInv, addRet, rd>>

\* the "enabled" read: not found resets Enabled and goes on to the second
\* read; every other outcome, nil included, is returned at once.
ReloadEnabled(t) ==
    /\ ~crashed /\ pc[t] = "rEnabled"
    /\ \E g \in GetBool(enabled) :
         /\ IF g.err = "notfound"
            THEN /\ enabled' = EnabledNotFound(g.val)
                 /\ pc' = [pc EXCEPT ![t] = "rWhitelisted"]
                 /\ UNCHANGED ret
            ELSE /\ enabled' = g.val
                 /\ ret' = [ret EXCEPT ![t] = ErrRet(g.err)]
                 /\ pc' = [pc EXCEPT ![t] = "runlock"]
         /\ rd' = [rd EXCEPT ![t].e = g.err]
    /\ StillQuiet(t)
    /\ UNCHANGED <<members, spare, lockVars, envVars, loopVars, op, arg, calls, remotes>>
    /\ UNCHANGED <<malformed, addInv, addRet, pre>>

\* the "whitelisted" read: not found resets Whitelisted; another error is
\* returned; nil is returned after a successful decode.
ReloadWhitelisted(t) ==
    /\ ~crashed /\ pc[t] = "rWhitelisted"
    /\ \E g \in GetSlice(members, spare) :
         /\ members' = IF g.err = "notfound" THEN WhitelistedNotFound(g.val) ELSE g.val
         /\ spare' = IF g.err = "notfound" THEN <<>> ELSE g.sp
         /\ ret' = [ret EXCEPT ![t] = WhitelistedRet(g.err)]
         /\ rd' = [rd EXCEPT ![t].w = g.err]
    /\ pc' = [pc EXCEPT ![t] = "runlock"]
    /\ StillQuiet(t)
    /\ UNCHANGED <<enabled, lockVars, envVars, loopVars, op, arg, calls, remotes>>
    /\ UNCHANGED <<malformed, addInv, addRet, pre>>

\* the deferred w.m.Unlock(); Reload returns
ReloadUnlock(t) ==
    /\ ~crashed /\ pc[t] = "runlock"
    /\ Unlock
    /\ Return(t)
    /\ pre' = [pre EXCEPT ![t] = NoSnap]
    /\ rd' = [rd EXCEPT ![t] = NoReads]
    /\ quiet' = {}
    /\ last' = IF t \in quiet
               THEN [ret |-> ret[t], e |-> ReadValue("IsEnabled", NoArg),
                     m |-> ReadValue("AllWhitelisted", NoArg), rd |-> rd[t]]
               ELSE NoLast
    /\ UNCHANGED <<dataVars, envVars, loopVars, calls, remotes>>
    /\ UNCHANGED <<malformed, addInv, addRet>>

\* ------------------------------- IsEnabled / Contains / AllWhitelisted
\* w.m.RLock()
ReadLock(t) ==
    /\ ~crashed /\ pc[t] = "rdlock"
    /\ RLock
    /\ pc' = [pc EXCEPT ![t] = "read"]
    /\ UNCHANGED <<dataVars, envVars, loopVars, op, arg, ret, calls, remotes>>
    /\ Other

Read(t) ==
    /\ ~crashed /\ pc[t] = "read"
    /\ ret' = [ret EXCEPT ![t] = ReadValue(op[t], arg[t])]
    /\ pc' = [pc EXCEPT ![t] = "rdunlock"]
    /\ UNCHANGED <<dataVars, lockVars, envVars, loopVars, op, arg, calls, remotes>>
    /\ Other

\* the deferred w.m.RUnlock(); the reader returns, and the caller of
\* AllWhitelisted has the returned slice in its hands
ReadUnlock(t) ==
    /\ ~crashed /\ pc[t] = "rdunlock"
    /\ RUnlock
    /\ IF op[t] = "AllWhitelisted"
       THEN pc' = [pc EXCEPT ![t] = "holding"] /\ UNCHANGED <<op, arg, ret>>
       ELSE Return(t)
    /\ UNCHANGED <<dataVars, envVars, loopVars, calls, remotes>>
    /\ Other

\* (mutant) AllWhitelisted returns w.Whitelisted itself
CopySharesCache == TRUE

\* copy := make([]string, 0); copy = append(copy, w.Whitelisted...): whether
\* the slice returned has the array of w.Whitelisted
CopyShares == FALSE

\* The caller assigns to an element of the slice AllWhitelisted returned to
\* it: the element of that slice's array changes.
CallerWrites(t, i, x) ==
    /\ ~crashed /\ pc[t] = "holding"
    /\ i \in 1..Len(ret[t].s) /\ ret[t].s[i] # x
    /\ ret' = [ret EXCEPT ![t].s[i] = x]
    /\ members' = IF CopyShares /\ i <= Len(members)
                  THEN [members EXCEPT ![i] = x] ELSE members
    /\ pc' = [pc EXCEPT ![t] = "written"]
    /\ UNCHANGED <<enabled, spare, lockVars, envVars, loopVars, op, arg, calls, remotes>>
    /\ Other

\* The caller lets go of the slice.
CallerDrops(t) ==
    /\ ~crashed /\ pc[t] \in {"holding", "written"}
    /\ Return(t)
    /\ UNCHANGED <<dataVars, lockVars, envVars, loopVars, calls, remotes>>
    /\ Other

\* ----------------------------------------------------------- environment
\* Another process writes a value under one of the keys: the store holds it
\* and the watch stream delivers it.
RemoteWrite(k, p) ==
    /\ ~crashed /\ remotes < MaxRemote
    /\ store' = [store EXCEPT ![k] = p]
    /\ watch' = Append(watch, Event(k, p))
    /\ remotes' = remotes + 1
    /\ UNCHANGED <<dataVars, lockVars, loopVars, callVars>>
    /\ Other

\* The stream delivers a nil entry or a change of a key the cache does not use.
StrayEvent(e) ==
    /\ ~crashed /\ remotes < MaxRemote
    /\ watch' = Append(watch, e)
    /\ remotes' = remotes + 1
    /\ UNCHANGED <<dataVars, lockVars, loopVars, callVars, store>>
    /\ Other

\* ------------------------------------------------- what the store decodes to
\* The value a fresh field takes when the stored payload is decoded into it,
\* with the documented default when the key is absent.
StoreEnabled ==
    IF store["enabled"] = Absent THEN FALSE
    ELSE UnmarshalBool(store["enabled"], FALSE).val

StoreMembers ==
    IF store["whitelisted"] = Absent THEN <<>>
    ELSE UnmarshalSlice(store["whitelisted"], <<>>, <<>>).val

\* The ids of a decoded "whitelisted" payload.
PayloadHas(p, id) == SliceContains(UnmarshalSlice(p, <<>>, <<>>).val, id)

\* t's call is about to return: only its deferred unlock is left.
Returning(t, o) ==
    /\ op[t] = o
    /\ pc[t] = IF o \in MutOps THEN "unlock2" ELSE IF o = "Reload" THEN "runlock" ELSE "rdunlock"

AllIdle == \A t \in Callers : pc[t] = "idle"
Drained == watch = <<>> /\ apc = "recv"

\* ===================================================================== C1
\* C1: once the apply loop has received a change event whose payload cannot
\* be decoded, the process does not crash (the loop keeps running).
C1_NoCrashAfterMalformed == malformed => ~crashed

\* ===================================================================== C4
\* C4: whenever a mutation's persist succeeds, the value it wrote reflects
\* its own update: Enable wrote true, Disable wrote false, Add(id) wrote a
\* sequence containing id, Remove(id) one that does not contain id.
Reflects(o, a, st) ==
    CASE o = "Enable" -> st["enabled"] = MarshalBool(TRUE)
      [] o = "Disable" -> st["enabled"] = MarshalBool(FALSE)
      [] o = "Add" -> PayloadHas(st["whitelisted"], a)
      [] OTHER -> ~PayloadHas(st["whitelisted"], a)

C4_WriteReflectsUpdate ==
    [][\A t \in Callers :
         (pc[t] = "set" /\ pc'[t] = "unlock2" /\ ret'[t] = RetNil)
            => Reflects(op[t], arg[t], store')]_vars

\* ===================================================================== C5
\* C5: when Reload returns success and nothing overlapped the call, enabled
\* equals the decoded "enabled" value (false when absent) and members equals
\* the decoded "whitelisted" value (empty when absent).
C5_ReloadEqualsStore ==
    \A t \in Callers :
        (Returning(t, "Reload") /\ ret[t] = RetNil /\ t \in quiet)
            => (enabled = StoreEnabled /\ members = StoreMembers)

\* ===================================================================== C6
\* C6: Reload returns an error exactly when one of the reads it made failed
\* with an error other than not-found; not-found alone never gives an error.
C6_ReloadErrorIffReadFails ==
    \A t \in Callers :
        Returning(t, "Reload")
            => ((ret[t] = RetErr) <=> (rd[t].e \in ReadFailed \/ rd[t].w \in ReadFailed))

\* a Reload returning the error of its second read, after a not-found first
C6_Witness ==
    \E t \in Callers :
        /\ Returning(t, "Reload") /\ ret[t] = RetErr
        /\ rd[t].e = "notfound" /\ rd[t].w = "store"

\* ===================================================================== C7
\* C7: if Reload returns an error, enabled and members are what they were
\* when the call took the lock.
C7_ReloadErrorKeepsState ==
    \A t \in Callers :
        (Returning(t, "Reload") /\ ret[t] = RetErr)
            => (enabled = pre[t].e /\ members = pre[t].m)

\* ===================================================================== C8
\* C8 as stated: if "enabled" has never been set in the store, Reload
\* returns success and enabled is false when it returns.
C8_AbsentAlwaysSucceeds ==
    \A t \in Callers :
        (Returning(t, "Reload") /\ t \in quiet /\ store["enabled"] = Absent)
            => (ret[t] = RetNil /\ enabled = FALSE)

\* C8 amended: if "enabled" has never been set in the store and neither read
\* of the Reload fails with an error other than not-found, an undisturbed
\* Reload returns success and enabled is false when it returns.
C8_AbsentSucceedsUnlessReadFails ==
    \A t \in Callers :
        (/\ Returning(t, "Reload") /\ t \in quiet /\ store["enabled"] = Absent
         /\ rd[t].e \notin ReadFailed /\ rd[t].w \notin ReadFailed)
            => (ret[t] = RetNil /\ enabled = FALSE)

\* such a Reload that found enabled true when it started
C8_Witness ==
    \E t \in Callers :
        /\ Returning(t, "Reload") /\ t \in quiet /\ store["enabled"] = Absent
        /\ rd[t].e = "notfound" /\ rd[t].w \notin ReadFailed
        /\ pre[t].e = TRUE /\ ret[t] = RetNil

\* ==================================================================== C10
\* C10: when the apply loop decodes a well-formed event {"enabled", v},
\* enabled becomes v; enabled then changes only by a mutation's update, a
\* Reload or another "enabled" event; and IsEnabled returns enabled.
AppliesEnabled(v) ==
    /\ apc = "decode" /\ apc' # "decode"
    /\ aev = Event("enabled", MarshalBool(v))

EnabledWriter ==
    \/ apc = "decode" /\ apc' # "decode" /\ aev.key = "enabled"
    \/ \E t \in Callers : pc[t] = "update" /\ pc'[t] = "unlock1"
    \/ \E t \in Callers : pc[t] = "rEnabled" /\ pc'[t] # "rEnabled"

C10_AppliedEnabledIsRead ==
    [][/\ \A v \in BOOLEAN : AppliesEnabled(v) => enabled' = v
       /\ enabled' # enabled => EnabledWriter
       /\ \A t \in Callers :
            (op[t] = "IsEnabled" /\ pc[t] = "read" /\ pc'[t] = "rdunlock")
                => ret'[t] = RetBool(enabled)]_vars

\* an IsEnabled call returning true that an applied event alone made true
C10_Witness ==
    \E t \in Callers :
        /\ Returning(t, "IsEnabled") /\ ret[t] = RetBool(TRUE)
        /\ calls = 1 /\ store["enabled"] = MarshalBool(TRUE)

\* ------------------------------------------------------------- the system
Next ==
    \/ \E t \in Callers, o \in Ops : \E a \in ArgsOf(o) : Call(t, o, a)
    \/ \E t \in Callers : MutLock(t)
    \/ \E t \in Callers : MutUpdate(t)
    \/ \E t \in Callers : MutUnlock(t)
    \/ \E t \in Callers : SaveLock(t)
    \/ \E t \in Callers : SetOk(t)
    \/ \E t \in Callers : SetFail(t)
    \/ \E t \in Callers : SaveUnlock(t)
    \/ \E t \in Callers : ReloadLock(t)
    \/ \E t \in Callers : ReloadEnabled(t)
    \/ \E t \in Callers : ReloadWhitelisted(t)
    \/ \E t \in Callers : ReloadUnlock(t)
    \/ \E t \in Callers : ReadLock(t)
    \/ \E t \in Callers : Read(t)
    \/ \E t \in Callers : ReadUnlock(t)
    \/ \E t \in Callers : \E i \in 1..Len(ret[t].s), x \in Ids : CallerWrites(t, i, x)
    \/ \E t \in Callers : CallerDrops(t)
    \/ ApplyRecv
    \/ ApplyLock
    \/ ApplyDecode
    \/ ApplyErrUnlock
    \/ ApplyUnlock
    \/ \E k \in Keys : \E p \in RemotePayloads(k) : RemoteWrite(k, p)
    \/ \E e \in {NilEvent, Event("other", BoolPayload(TRUE))} : StrayEvent(e)

Spec == Init /\ [][Next]_vars
\* ----------------------------------------------------- Add-only workloads
\* Callers invoke only Add, each with an id no Add was invoked with before,
\* and Contains; every save succeeds and no other process writes, so every
\* event is one an Add's save caused and none is malformed.
NextAdd ==
    \/ \E t \in Callers : \E a \in Ids \ addInv : Call(t, "Add", a)
    \/ \E t \in Callers : \E a \in Ids : Call(t, "Contains", a)
    \/ \E t \in Callers : MutLock(t)
    \/ \E t \in Callers : MutUpdate(t)
    \/ \E t \in Callers : MutUnlock(t)
    \/ \E t \in Callers : SaveLock(t)
    \/ \E t \in Callers : SetOk(t)
    \/ \E t \in Callers : SaveUnlock(t)
    \/ \E t \in Callers : ReadLock(t)
    \/ \E t \in Callers : Read(t)
    \/ \E t \in Callers : ReadUnlock(t)
    \/ ApplyRecv
    \/ ApplyLock
    \/ ApplyDecode
    \/ ApplyUnlock

SpecAdd == Init /\ [][NextAdd]_vars

\* ===================================================================== C2
\* C2: once every Add (each with its own id, members empty at the start) has
\* returned and every pending change event has been applied, members holds
\* exactly the ids added, each once.
ExactlyOnce(s, S) ==
    /\ Len(s) = Cardinality(S)
    /\ \A id \in S : \E i \in 1..Len(s) : s[i] = id

C2_NoLostAdd == (AllIdle /\ Drained) => ExactlyOnce(members, addInv)

\* ===================================================================== C3
\* C3: with no Remove anywhere, Contains(id) is true for every id whose Add
\* has returned, in every state reached afterwards.
C3_AddedStaysContained == \A id \in addRet : ReadValue("Contains", id).b

\* ------------------------------------------------- well-behaved environment
\* Every persist succeeds, every change event is well-formed, events arrive
\* in the order of the writes (watch is a queue), and the callers and the
\* other processes stop after MaxCalls and MaxRemote operations.
\* the one id the callers add and remove in this environment
ConvId == "b"

CallerStep(t) ==
    \/ MutLock(t) \/ MutUpdate(t) \/ MutUnlock(t)
    \/ SaveLock(t) \/ SetOk(t) \/ SaveUnlock(t)
    \/ ReloadLock(t) \/ ReloadEnabled(t) \/ ReloadWhitelisted(t) \/ ReloadUnlock(t)

LoopStep == ApplyRecv \/ ApplyLock \/ ApplyDecode \/ ApplyUnlock

NextConv ==
    \/ \E t \in Callers, o \in MutOps \cup {"Reload"} :
          \E a \in ArgsOf(o) \cap {NoArg, ConvId} : Call(t, o, a)
    \/ \E t \in Callers : CallerStep(t)
    \/ LoopStep
    \/ \E p \in {BoolPayload(TRUE)} : RemoteWrite("enabled", p)
    \/ \E p \in {ArrPayload(<<StrTok("a")>>)} : RemoteWrite("whitelisted", p)

\* The Go scheduler runs a runnable goroutine: while a caller inside a call or
\* the apply loop can take its next step, some such step is taken.
Progress == LoopStep \/ \E t \in Callers : CallerStep(t)

SpecConv == Init /\ [][NextConv]_vars /\ WF_vars(Progress)

\* ===================================================================== C9
\* C9: in a well-behaved environment the cache eventually reaches and stays
\* in a state where enabled and members equal what the store holds.
Converged == enabled = StoreEnabled /\ members = StoreMembers

C9_Converges == <>[]Converged

\* at rest and converged on values that two local mutations wrote
C9_Witness ==
    /\ AllIdle /\ Drained /\ Converged
    /\ calls = MaxCalls /\ remotes = 0
    /\ enabled = TRUE /\ members # <<>>

\* ------------------------------------------------------ one caller, Reload
\* A single caller sets the fields (Enable, Add, with a save that succeeds or
\* fails) and reloads, while other processes write both keys and the apply
\* loop handles what the stream delivers.
NextReload ==
    \/ \E o \in {"Enable", "Add", "Reload"} : \E a \in ArgsOf(o) : Call(1, o, a)
    \/ MutLock(1) \/ MutUpdate(1) \/ MutUnlock(1)
    \/ SaveLock(1) \/ SetOk(1) \/ SetFail(1) \/ SaveUnlock(1)
    \/ ReloadLock(1) \/ ReloadEnabled(1) \/ ReloadWhitelisted(1) \/ ReloadUnlock(1)
    \/ ApplyRecv \/ ApplyLock \/ ApplyDecode \/ ApplyErrUnlock \/ ApplyUnlock
    \/ \E k \in Keys : \E p \in RemotePayloads(k) : RemoteWrite(k, p)

SpecReload == Init /\ [][NextReload]_vars

\* --------------------------------------------------- the enabled flag alone
\* Callers enable, disable, reload and read the flag while other processes
\* write "enabled", well-formed or not.
NextEnabled ==
    \/ \E t \in Callers, o \in {"Enable", "Disable", "IsEnabled", "Reload"} : Call(t, o, NoArg)
    \/ \E t \in Callers : CallerStep(t)
    \/ \E t \in Callers : SetFail(t)
    \/ \E t \in Callers : ReadLock(t) \/ Read(t) \/ ReadUnlock(t)
    \/ ApplyRecv \/ ApplyLock \/ ApplyDecode \/ ApplyErrUnlock \/ ApplyUnlock
    \/ \E p \in RemotePayloads("enabled") : RemoteWrite("enabled", p)

SpecEnabled == Init /\ [][NextEnabled]_vars

\* ------------------------------------------- mutations that may fail to persist
\* Callers mutate both fields and read them; a save succeeds or fails; the
\* apply loop handles the events the successful saves cause.
NextMut ==
    \/ \E t \in Callers, o \in MutOps \cup {"IsEnabled", "Contains"} :
          \E a \in ArgsOf(o) \cap {NoArg, ConvId} : Call(t, o, a)
    \/ \E t \in Callers : MutLock(t)
    \/ \E t \in Callers : MutUpdate(t)
    \/ \E t \in Callers : MutUnlock(t)
    \/ \E t \in Callers : SaveLock(t)
    \/ \E t \in Callers : SetOk(t)
    \/ \E t \in Callers : SetFail(t)
    \/ \E t \in Callers : SaveUnlock(t)
    \/ \E t \in Callers : ReadLock(t)
    \/ \E t \in Callers : Read(t)
    \/ \E t \in Callers : ReadUnlock(t)
    \/ ApplyRecv
    \/ ApplyLock
    \/ ApplyDecode
    \/ ApplyUnlock

SpecMut == Init /\ [][NextMut]_vars

\* ==================================================================== C11
\* C11: a mutation whose persist fails returns the error and does not take
\* its memory update back: the update step makes the fields show the update
\* to a reader, the failing persist and the return leave the fields as they
\* are, and the fields change only by an update step or an applied event.
Observes(o, a) ==
    CASE o = "Enable" -> ReadValue("IsEnabled", NoArg).b
      [] o = "Disable" -> ~ReadValue("IsEnabled", NoArg).b
      [] o = "Add" -> ReadValue("Contains", a).b
      [] OTHER -> ~ReadValue("Contains", a).b

PersistFails(t) == pc[t] = "set" /\ pc'[t] = "unlock2" /\ watch' = watch

FieldWriter ==
    \/ apc = "decode" /\ apc' # "decode"
    \/ \E t \in Callers : pc[t] = "update" /\ pc'[t] = "unlock1"
    \/ \E t \in Callers : pc[t] \in {"rEnabled", "rWhitelisted"} /\ pc'[t] # pc[t]

C11_FailedPersistKeepsUpdate ==
    [][/\ \A t \in Callers :
            /\ (pc[t] = "update" /\ pc'[t] = "unlock1") => Observes(op[t], arg[t])'
            /\ PersistFails(t) => (ret'[t] = RetErr /\ UNCHANGED <<enabled, members>>)
            /\ (pc[t] = "unlock2" /\ pc'[t] = "idle") => UNCHANGED <<enabled, members>>
       /\ (enabled' # enabled \/ members' # members) => FieldWriter]_vars

\* an Add returning the error of its persist while Contains is true for its id
C11_Witness ==
    \E t \in Callers :
        /\ Returning(t, "Add") /\ ret[t] = RetErr
        /\ ReadValue("Contains", arg[t]).b
        /\ store["whitelisted"] = Absent

\* ------------------------------------------------------ Add, Remove, Contains
\* Callers add, remove and look up ids; every save succeeds; another process
\* writes a list that holds an id twice, between two other entries.
RepeatedList == ArrPayload(<<StrTok("c"), StrTok("a"), StrTok("b"), StrTok("a")>>)

NextRemove ==
    \/ \E t \in Callers, o \in {"Add", "Remove", "Contains"} :
          \E a \in Ids : Call(t, o, a)
    \/ \E t \in Callers : MutLock(t)
    \/ \E t \in Callers : MutUpdate(t)
    \/ \E t \in Callers : MutUnlock(t)
    \/ \E t \in Callers : SaveLock(t)
    \/ \E t \in Callers : SetOk(t)
    \/ \E t \in Callers : SaveUnlock(t)
    \/ \E t \in Callers : ReadLock(t)
    \/ \E t \in Callers : Read(t)
    \/ \E t \in Callers : ReadUnlock(t)
    \/ ApplyRecv
    \/ ApplyLock
    \/ ApplyDecode
    \/ ApplyUnlock
    \/ RemoteWrite("whitelisted", RepeatedList)

SpecRemove == Init /\ [][NextRemove]_vars

\* ==================================================================== C12
\* C12: the update step of Remove(id) leaves in members exactly the entries
\* other than id, in their order, however often id occurred; Contains(id)
\* is false on the result.
Differs(id) == [x \in Ids \cup {EmptyStr, "c"} |-> x # id]

RemoveStep(t) == op[t] = "Remove" /\ pc[t] = "update" /\ pc'[t] = "unlock1"

C12_RemoveDeletesAll ==
    [][\A t \in Callers :
         RemoveStep(t) =>
            /\ members' = SelectSeq(members, LAMBDA x : Differs(arg[t])[x])
            /\ ~ReadValue("Contains", arg[t]).b']_vars

\* a Remove("a") that has just taken both occurrences of "a" out of c, a, b, a
C12_Witness ==
    \E t \in Callers :
        /\ op[t] = "Remove" /\ arg[t] = "a" /\ pc[t] = "unlock1"
        /\ members = <<"c", "b">>

\* ==================================================================== C13
\* C13 as stated: a Reload that follows an undisturbed Reload, with nothing
\* in between and nothing overlapping it, returns what the first returned
\* and leaves IsEnabled and AllWhitelisted as the first left them.
SecondReload(t) ==
    Returning(t, "Reload") /\ t \in quiet /\ last # NoLast

SameAsLast(t) ==
    /\ ret[t] = last.ret
    /\ ReadValue("IsEnabled", NoArg) = last.e
    /\ ReadValue("AllWhitelisted", NoArg) = last.m

C13_ReloadTwiceSame == \A t \in Callers : SecondReload(t) => SameAsLast(t)

\* C13 amended: the same, when each read the second Reload makes has the
\* outcome it had in the first (a value, not-found, or the same failure).
C13_ReloadTwiceSameReads ==
    \A t \in Callers : (SecondReload(t) /\ rd[t] = last.rd) => SameAsLast(t)

\* a second Reload that decoded "whitelisted" again, as the first had
C13_Witness ==
    \E t \in Callers :
        /\ SecondReload(t) /\ rd[t] = last.rd
        /\ rd[t].w = "nil" /\ members # <<>>

\* -------------------------------------------------- AllWhitelisted's result
\* Callers add ids, take the list with AllWhitelisted, assign to elements of
\* what they got, and look ids up; every save succeeds.
NextCopy ==
    \/ \E t \in Callers, o \in {"Add", "AllWhitelisted", "Contains"} :
          \E a \in ArgsOf(o) : Call(t, o, a)
    \/ \E t \in Callers : MutLock(t)
    \/ \E t \in Callers : MutUpdate(t)
    \/ \E t \in Callers : MutUnlock(t)
    \/ \E t \in Callers : SaveLock(t)
    \/ \E t \in Callers : SetOk(t)
    \/ \E t \in Callers : SaveUnlock(t)
    \/ \E t \in Callers : ReadLock(t)
    \/ \E t \in Callers : Read(t)
    \/ \E t \in Callers : ReadUnlock(t)
    \/ \E t \in Callers : \E i \in 1..Len(ret[t].s), x \in Ids : CallerWrites(t, i, x)
    \/ \E t \in Callers : CallerDrops(t)
    \/ ApplyRecv
    \/ ApplyLock
    \/ ApplyDecode
    \/ ApplyUnlock

SpecCopy == Init /\ [][NextCopy]_vars

\* ==================================================================== C14
\* C14: when a caller assigns to an element of the sequence AllWhitelisted
\* returned, members stays as it is, and so does what Contains and
\* AllWhitelisted return for it.
WritesReturned(t) == pc[t] = "holding" /\ pc'[t] = "written"

LoopHolds ==
    \/ apc \in {"decode", "errUnlock"}
    \/ apc = "unlock" /\ WellFormed(aev.key, aev.val)

LoopUnlocks == apc \in {"errUnlock", "unlock"} /\ apc' # apc

C15_LoopUnlocksHeldLock == [][LoopUnlocks => LoopHolds]_vars

\* ==================================================================== C16
\* C16: at most one task is between a Lock and the matching Unlock (the
\* callers in Reload, in a mutation's update or in a save, and the apply
\* loop), and no reader is between its RLock and its RUnlock while one is.
InExclusive(t) ==
    pc[t] \in {"update", "unlock1", "set", "unlock2", "rEnabled", "rWhitelisted", "runlock"}

InShared(t) == pc[t] \in {"read", "rdunlock"}

Writers == {t \in Callers : InExclusive(t)}

C16_MutualExclusion ==
    ~crashed =>
        /\ Cardinality(Writers) + (IF LoopHolds THEN 1 ELSE 0) <= 1
        /\ (\E t \in Callers : InShared(t)) => (Writers = {} /\ ~LoopHolds)

\* ==================================================================== C17
\* C17: while a caller is in the store's set call, the cache lock is not
\* write-locked: a reader could take its read lock at once.
C17_NoSetUnderLock == \A t \in Callers : pc[t] = "set" => CanRLock

\* ==================================================================== C18
\* C18: when the apply loop fails to decode the payload of an event, both
\* enabled and members are what they were before the event was handled.
DecodeFails == apc = "decode" /\ apc' = "errUnlock"

C18_MalformedKeepsFields == [][DecodeFails => UNCHANGED <<enabled, members>>]_vars

\* ----------------------------------------------- events the cache ignores
\* The stream delivers nil entries and changes of a key the cache does not
\* use, between the changes the callers' own successful saves cause.
StrayEvents == {NilEvent, Event("other", BoolPayload(TRUE))}

NextStray ==
    \/ \E t \in Callers, o \in {"Enable", "Disable", "Add", "IsEnabled"} :
          \E a \in ArgsOf(o) \cap {NoArg, ConvId} : Call(t, o, a)
    \/ \E t \in Callers : MutLock(t)
    \/ \E t \in Callers : MutUpdate(t)
    \/ \E t \in Callers : MutUnlock(t)
    \/ \E t \in Callers : SaveLock(t)
    \/ \E t \in Callers : SetOk(t)
    \/ \E t \in Callers : SaveUnlock(t)
    \/ \E t \in Callers : ReadLock(t)
    \/ \E t \in Callers : Read(t)
    \/ \E t \in Callers : ReadUnlock(t)
    \/ ApplyRecv
    \/ ApplyLock
    \/ ApplyDecode
    \/ ApplyUnlock
    \/ \E e \in StrayEvents : StrayEvent(e)

SpecStray == Init /\ [][NextStray]_vars

\* ==================================================================== C19
\* C19: when the apply loop takes a nil event or an event of another key
\* from the stream, enabled, members and the lock stay as they are, and the
\* loop is ready to take the next event.
TakesStray ==
    /\ apc = "recv" /\ watch # <<>> /\ watch' = Tail(watch)
    /\ Head(watch) \in StrayEvents

C19_StrayEventsIgnored ==
    [][TakesStray => (UNCHANGED <<enabled, members, wlocked, readers>> /\ apc' = "recv")]_vars

\* the loop has taken the stray event and, after it, an event it is handling
C19_Witness ==
    /\ remotes = 1 /\ watch = <<>> /\ apc = "decode"

\* --------------------------------------------------------- fair scheduling
\* Callers invoke operations of every kind while other processes write both
\* keys, well-formed or not, and the stream delivers stray events.  Every
\* store call returns, and the scheduler runs a goroutine that can take a
\* step: while a caller inside a call or the apply loop can step, one does.
ReaderStep(t) == ReadLock(t) \/ Read(t) \/ ReadUnlock(t)

NextLive ==
    \/ \E t \in Callers, o \in {"Enable", "Add", "Reload", "IsEnabled"} :
          \E a \in ArgsOf(o) \cap {NoArg, ConvId} : Call(t, o, a)
    \/ \E t \in Callers : CallerStep(t)
    \/ \E t \in Callers : SetFail(t)
    \/ \E t \in Callers : ReaderStep(t)
    \/ LoopStep
    \/ ApplyErrUnlock
    \/ \E k \in Keys : \E p \in RemotePayloads(k) : RemoteWrite(k, p)
    \/ \E e \in StrayEvents : StrayEvent(e)

Scheduled ==
    \/ LoopStep
    \/ ApplyErrUnlock
    \/ \E t \in Callers : CallerStep(t) \/ SetFail(t) \/ ReaderStep(t)

SpecLive == Init /\ [][NextLive]_vars /\ WF_vars(Scheduled)

\* ==================================================================== C20
\* C20: every call a caller is in eventually returns.
C20_EveryCallReturns == \A t \in Callers : (pc[t] # "idle") ~> (pc[t] = "idle")
====
